---------------------------- MODULE Spec2Model ----------------------------
(***************************************************************************)
(* Verification model of the URL normaliser and the per-section seen-store *)
(* of venue-voice (backend/utils/seen_store.py, backend/utils/             *)
(* url_tracking.py) and of its brand-guideline checker                     *)
(* (backend/newsletter_generator.py, config/brand_guidelines.py).          *)
(*                                                                         *)
(* Strings are sequences of tokens.  A token is either one delimiter       *)
(* character (":", "/", "?", "#", "&", "=", ";", " ", "+", "%", "["), one  *)
(* percent escape ("%26", ...) or an atomic run of letters, digits, "."    *)
(* and "_" ("http", "x.com", "utm_source", ...).  No word token starts     *)
(* with two hexadecimal digits and no concatenation of tokens spells       *)
(* another token, so equality of token sequences is equality of the        *)
(* strings they spell.  The library functions (urlparse, parse_qsl,        *)
(* urlencode, urlunparse) follow CPython 3.11's urllib.parse.              *)
(***************************************************************************)
EXTENDS Integers, Sequences, FiniteSets, TLC

\* ------------------------------------------------------------------------
\* Characters
\* ------------------------------------------------------------------------

\* str.lower() on one token; tokens without upper-case letters are unchanged.
LowerTok(t) ==
    CASE t = "HTTP"       -> "http"
      [] t = "X.com"      -> "x.com"
      [] t = "P"          -> "p"
      [] t = "K"          -> "k"
      [] t = "UTM_SOURCE" -> "utm_source"
      [] t = "Gclid"      -> "gclid"
      [] t = "News"       -> "news"
      [] OTHER            -> t

lower(s) == [i \in 1..Len(s) |-> LowerTok(s[i])]

\* Tokens made only of scheme characters (letters, digits, "+", "-", ".").
SchemeToks == {"http", "https", "HTTP", "x.com", "X.com", "p", "P", "k", "K",
               "v", "gclid", "Gclid", "fbclid", "+"}

\* Tokens whose first character is an ASCII letter.
AlphaToks == {"http", "https", "HTTP", "x.com", "X.com", "p", "P", "k", "K",
              "v", "gclid", "Gclid", "fbclid", "utm_source", "UTM_SOURCE",
              "utm_medium", "utm_campaign", "utm_term", "utm_content",
              "mc_cid", "mc_eid", "mkt_tok"}

\* str.strip(): leading and trailing whitespace removed.
RECURSIVE lstrip(_)
lstrip(s) == IF s # <<>> /\ Head(s) = " " THEN lstrip(Tail(s)) ELSE s

RECURSIVE rstrip(_)
rstrip(s) ==
    IF s # <<>> /\ s[Len(s)] = " " THEN rstrip(SubSeq(s, 1, Len(s) - 1)) ELSE s

strip(s) == rstrip(lstrip(s))

\* str.find over a set of characters: the least index >= lo holding one of
\* cs, 0 when there is none.
find(s, cs, lo) ==
    LET I == {i \in lo..Len(s) : s[i] \in cs}
    IN  IF I = {} THEN 0 ELSE CHOOSE i \in I : \A j \in I : i <= j

\* The greatest index holding c, 0 when there is none (str.rfind).
rfind(s, c) ==
    LET I == {i \in 1..Len(s) : s[i] = c}
    IN  IF I = {} THEN 0 ELSE CHOOSE i \in I : \A j \in I : j <= i

\* s[i:] with 1-based i.
From(s, i) == SubSeq(s, i, Len(s))

\* str.split(sep): the pieces between the separators, empty pieces kept.
RECURSIVE split(_, _)
split(s, sep) ==
    LET i == find(s, {sep}, 1)
    IN  IF i = 0 THEN <<s>>
        ELSE <<SubSeq(s, 1, i - 1)>> \o split(From(s, i + 1), sep)

\* ------------------------------------------------------------------------
\* urllib.parse
\* ------------------------------------------------------------------------

uses_netloc == {<<>>, <<"http">>, <<"https">>}
uses_params == {<<>>, <<"http">>, <<"https">>}

\* urlsplit's scheme detection: the text before the first ":" is a scheme
\* when it is not empty, starts with a letter and holds scheme characters
\* only.  Returns the length of the scheme, 0 when there is none.
SchemeLen(url) ==
    LET i == find(url, {":"}, 1)
    IN  IF /\ i > 1
           /\ url[1] \in AlphaToks
           /\ \A j \in 1..(i - 1) : url[j] \in SchemeToks
        THEN i - 1 ELSE 0

\* urlparse proceeds in steps, each handing what it split off to the next:
\* scheme, netloc, fragment, query, params.

\* urlparse, last step, _splitparams: the first ";" of the last path segment
\* starts the params (for the schemes of uses_params).  ok is FALSE when
\* urlsplit raised ValueError (an unmatched "[" in the netloc).
SplitParams(scheme, netloc, url4, query, frag, sc) ==
    [ok |-> \A i \in 1..Len(netloc) : netloc[i] # "[",
     scheme |-> scheme, netloc |-> netloc,
     path |-> IF sc = 0 THEN url4 ELSE SubSeq(url4, 1, sc - 1),
     params |-> IF sc = 0 THEN <<>> ELSE From(url4, sc + 1),
     query |-> query, fragment |-> frag]

FindParams(scheme, url4, sl) ==
    IF scheme \in uses_params THEN find(url4, {";"}, IF sl = 0 THEN 1 ELSE sl) ELSE 0

PathAndParams(scheme, netloc, url4, query, frag) ==
    SplitParams(scheme, netloc, url4, query, frag,
                FindParams(scheme, url4, rfind(url4, "/")))

\* urlsplit: if '?' in url: url, query = url.split('?', 1)
SplitQuery(scheme, netloc, url3, frag, q) ==
    IF q = 0 THEN PathAndParams(scheme, netloc, url3, <<>>, frag)
    ELSE PathAndParams(scheme, netloc, SubSeq(url3, 1, q - 1), From(url3, q + 1), frag)

\* urlsplit: if '#' in url: url, fragment = url.split('#', 1)
SplitFragment(scheme, netloc, url2, h) ==
    IF h = 0 THEN SplitQuery(scheme, netloc, url2, <<>>, find(url2, {"?"}, 1))
    ELSE SplitQuery(scheme, netloc, SubSeq(url2, 1, h - 1), From(url2, h + 1),
                    find(SubSeq(url2, 1, h - 1), {"?"}, 1))

\* urlsplit, _splitnetloc: after "//" the netloc runs to the first of "/",
\* "?", "#".
SplitNetloc(scheme, url1, delim) ==
    IF ~(Len(url1) >= 2 /\ url1[1] = "/" /\ url1[2] = "/")
    THEN SplitFragment(scheme, <<>>, url1, find(url1, {"#"}, 1))
    ELSE IF delim = 0 THEN SplitFragment(scheme, From(url1, 3), <<>>, 0)
    ELSE SplitFragment(scheme, SubSeq(url1, 3, delim - 1), From(url1, delim),
                       find(From(url1, delim), {"#"}, 1))

SplitScheme(url0, n) ==
    IF n > 0
    THEN SplitNetloc(lower(SubSeq(url0, 1, n)), From(url0, n + 2),
                     find(From(url0, n + 2), {"/", "?", "#"}, 3))
    ELSE SplitNetloc(<<>>, url0, find(url0, {"/", "?", "#"}, 3))

\* urlparse(url): scheme, netloc, path, params, query, fragment.
urlparse(url0) == SplitScheme(url0, SchemeLen(url0))

\* unquote of one token after "+" was replaced by " ".
UnquoteTok(t) ==
    CASE t = "+"   -> " "
      [] t = "%26" -> "&"
      [] t = "%3D" -> "="
      [] t = "%25" -> "%"
      [] t = "%2F" -> "/"
      [] t = "%3A" -> ":"
      [] t = "%3F" -> "?"
      [] t = "%23" -> "#"
      [] t = "%3B" -> ";"
      [] t = "%5B" -> "["
      [] t = "%2B" -> "+"
      [] OTHER     -> t

unquote_plus(s) == [i \in 1..Len(s) |-> UnquoteTok(s[i])]

\* quote_plus of one token: letters, digits, "_", ".", "-", "~" are safe.
QuoteTok(t) ==
    CASE t = " " -> "+"
      [] t = "&" -> "%26"
      [] t = "=" -> "%3D"
      [] t = "%" -> "%25"
      [] t = "/" -> "%2F"
      [] t = ":" -> "%3A"
      [] t = "?" -> "%3F"
      [] t = "#" -> "%23"
      [] t = ";" -> "%3B"
      [] t = "[" -> "%5B"
      [] t = "+" -> "%2B"
      [] OTHER   -> t

quote_plus(s) == [i \in 1..Len(s) |-> QuoteTok(s[i])]

\* One "name=value" field of a query string as a <<name, value>> pair
\* (keep_blank_values: a field without "=" has the value "").
Field(nv) ==
    LET e == find(nv, {"="}, 1)
    IN  IF e = 0 THEN <<unquote_plus(nv), <<>>>>
        ELSE <<unquote_plus(SubSeq(nv, 1, e - 1)), unquote_plus(From(nv, e + 1))>>

\* parse_qsl(qs, keep_blank_values=True): empty fields are skipped.
parse_qsl(qs) ==
    LET fs == split(qs, "&")
        RECURSIVE Go(_)
        Go(i) == IF i > Len(fs) THEN <<>>
                 ELSE IF fs[i] = <<>> THEN Go(i + 1)
                 ELSE <<Field(fs[i])>> \o Go(i + 1)
    IN  Go(1)

\* urlencode(q, doseq=True) for string values.
RECURSIVE urlencode(_)
urlencode(q) ==
    IF q = <<>> THEN <<>>
    ELSE LET kv == quote_plus(q[1][1]) \o <<"=">> \o quote_plus(q[1][2])
         IN  IF Len(q) = 1 THEN kv ELSE kv \o <<"&">> \o urlencode(Tail(q))

\* urlunsplit: scheme, "?" query and "#" fragment around the path.
AddParts(scheme, u1, query, fragment) ==
    (IF scheme # <<>> THEN scheme \o <<":">> ELSE <<>>) \o u1 \o
    (IF query # <<>> THEN <<"?">> \o query ELSE <<>>) \o
    (IF fragment # <<>> THEN <<"#">> \o fragment ELSE <<>>)

\* urlunsplit: "//" netloc goes before the path when there is a netloc, or
\* the scheme is one of uses_netloc and the path does not start with "//".
AddNetloc(scheme, netloc, u0, query, fragment) ==
    IF \/ netloc # <<>>
       \/ /\ scheme # <<>>
          /\ scheme \in uses_netloc
          /\ ~(Len(u0) >= 2 /\ u0[1] = "/" /\ u0[2] = "/")
    THEN AddParts(scheme,
                  <<"/", "/">> \o netloc \o
                      (IF u0 # <<>> /\ u0[1] # "/" THEN <<"/">> ELSE <<>>) \o u0,
                  query, fragment)
    ELSE AddParts(scheme, u0, query, fragment)

\* urlunparse((scheme, netloc, path, params, query, fragment)).
urlunparse(scheme, netloc, path, params, query, fragment) ==
    AddNetloc(scheme, netloc,
              IF params # <<>> THEN path \o <<";">> \o params ELSE path,
              query, fragment)

\* ------------------------------------------------------------------------
\* seen_store.normalize_url
\* ------------------------------------------------------------------------

\* A tracking set that lacks the click identifiers.
TRACKING_KEYS_utm_only ==
    {<<"utm_source">>, <<"utm_medium">>, <<"utm_campaign">>, <<"utm_term">>,
     <<"utm_content">>}

TRACKING_KEYS ==
    {<<"utm_source">>, <<"utm_medium">>, <<"utm_campaign">>, <<"utm_term">>,
     <<"utm_content">>, <<"gclid">>, <<"fbclid">>, <<"mc_cid">>, <<"mc_eid">>,
     <<"mkt_tok">>}

\* A filter that compares the key as it is written.
KeepPairs_case_sensitive(q) == SelectSeq(q, LAMBDA kv : kv[1] \notin TRACKING_KEYS)

\* The query pairs whose lower-cased key is no tracking key, in order.
KeepPairs(q) == SelectSeq(q, LAMBDA kv : lower(kv[1]) \notin TRACKING_KEYS)

\* A normalize_url without the exception handler: the ValueError of urlparse
\* leaves the function.
Rebuild_uncaught(stripped, p) ==
    IF ~p.ok THEN <<"ValueError">>
    ELSE urlunparse(IF p.scheme # <<>> THEN lower(p.scheme) ELSE <<"https">>,
                    lower(p.netloc),
                    IF p.path # <<>> THEN p.path ELSE <<"/">>,
                    p.params,
                    urlencode(KeepPairs(parse_qsl(p.query))),
                    <<>>)

\* A normalize_url that lower-cases the scheme and leaves the host as it is.
Rebuild_netloc_kept(stripped, p) ==
    IF ~p.ok THEN stripped
    ELSE urlunparse(IF p.scheme # <<>> THEN lower(p.scheme) ELSE <<"https">>,
                    p.netloc,
                    IF p.path # <<>> THEN p.path ELSE <<"/">>,
                    p.params,
                    urlencode(KeepPairs(parse_qsl(p.query))),
                    <<>>)

\* normalize_url after urlparse: the except branch returns url.strip().
Rebuild(stripped, p) ==
    IF ~p.ok THEN stripped
    ELSE urlunparse(IF p.scheme # <<>> THEN lower(p.scheme) ELSE <<"https">>,
                    lower(p.netloc),
                    IF p.path # <<>> THEN p.path ELSE <<"/">>,
                    p.params,
                    urlencode(KeepPairs(parse_qsl(p.query))),
                    <<>>)

Stripped(stripped) == Rebuild(stripped, urlparse(stripped))

normalize_url(url) == IF url = <<>> THEN <<>> ELSE Stripped(strip(url))

\* ------------------------------------------------------------------------
\* seen_store / url_tracking: the persisted per-section lists
\* ------------------------------------------------------------------------

\* Characters of a section name that _file_for keeps: c.isalnum() or "_", "-".
SafeToks == {"news", "tips", "_", "-"}

\* A file name that keeps the letter case of the section name.
file_for_case_kept(section) ==
    <<"seen_">> \o SelectSeq(section, LAMBDA c : LowerTok(c) \in SafeToks)
        \o <<".json">>

\* seen_store._file_for: the file name inside DATA_DIR.
file_for(section) ==
    <<"seen_">> \o SelectSeq(lower(section), LAMBDA c : c \in SafeToks) \o <<".json">>

\* url_tracking.seen_file_path: the section key is used as it is.
seen_file_path(section_key) == <<"seen_">> \o section_key \o <<".json">>

\* [normalize_url(str(x)) for x in data if x]
RECURSIVE NormalizeEach(_)
NormalizeEach(data) ==
    IF data = <<>> THEN <<>>
    ELSE IF Head(data) = <<>> THEN NormalizeEach(Tail(data))
    ELSE <<normalize_url(Head(data))>> \o NormalizeEach(Tail(data))

\* What load_seen returns once the path is known: [] for a missing file, for
\* a read or parse error and for JSON that is no list.
load_value(content, fault) ==
    IF content.kind = "absent" THEN <<>>
    ELSE IF fault = "read" \/ content.kind # "list" THEN <<>>
    ELSE NormalizeEach(content.data)

\* The loop of save_seen: normalised URLs, empty ones and repeats skipped.
RECURSIVE SaveLoop(_, _)
SaveLoop(urls, uniq) ==
    IF urls = <<>> THEN uniq
    ELSE LET nu == normalize_url(Head(urls))
         IN  IF nu # <<>> /\ \A i \in 1..Len(uniq) : uniq[i] # nu
             THEN SaveLoop(Tail(urls), Append(uniq, nu))
             ELSE SaveLoop(Tail(urls), uniq)

\* A save loop that appends every non-empty normalised URL, seen or not.
uniq_of_unchecked(urls) == NormalizeEach(urls)

uniq_of(urls) == SaveLoop(urls, <<>>)

\* The file after save_seen ran with the given fault: os.makedirs or open()
\* failing leaves it as it was, a failure after open(path, "w") truncated it
\* leaves an incomplete document.
saved_content(content, urls, fault) ==
    CASE fault = "none" -> [kind |-> "list", data |-> uniq_of(urls)]
      [] fault = "dump" -> [kind |-> "junk", data |-> <<>>]
      [] OTHER          -> content

\* A save that catches the exception and returns normally.
save_status_swallowed(fault) == "ok"

\* save_seen has no exception handler: every failure reaches the caller.
save_status(fault) == IF fault = "none" THEN "ok" ELSE "raised"

\* load_seen: _file_for (and with it os.makedirs) runs outside the try block.
load_status(fault) == IF fault = "mkdir" THEN "raised" ELSE "ok"

\* append_seen's argument to save_seen: [*new_urls, *prev].
append_arg(new_urls, prev) == new_urls \o prev

\* ------------------------------------------------------------------------
\* url_tracking: its own normalize_url, load_seen_urls and save_seen_urls
\* ------------------------------------------------------------------------

\* A list of keys that lost the utm_ entries.
tracking_keys_click_ids_only ==
    {<<"gclid">>, <<"fbclid">>, <<"mc_cid">>, <<"mc_eid">>, <<"mkt_tok">>}

\* The local set tracking_keys of url_tracking.normalize_url.
tracking_keys ==
    {<<"utm_source">>, <<"utm_medium">>, <<"utm_campaign">>, <<"utm_term">>,
     <<"utm_content">>, <<"gclid">>, <<"fbclid">>, <<"mc_cid">>, <<"mc_eid">>,
     <<"mkt_tok">>}

tracking_KeepPairs(q) == SelectSeq(q, LAMBDA kv : lower(kv[1]) \notin tracking_keys)

\* url_tracking.normalize_url after urlparse: the bare except returns
\* url.strip().
tracking_Rebuild(stripped, p) ==
    IF ~p.ok THEN stripped
    ELSE urlunparse(IF p.scheme # <<>> THEN lower(p.scheme) ELSE <<"https">>,
                    lower(p.netloc),
                    IF p.path # <<>> THEN p.path ELSE <<"/">>,
                    p.params,
                    urlencode(tracking_KeepPairs(parse_qsl(p.query))),
                    <<>>)

\* url_tracking.normalize_url: a falsy url is returned as it is.
tracking_normalize_url(url) ==
    IF url = <<>> THEN url ELSE tracking_Rebuild(strip(url), urlparse(strip(url)))

\* [normalize_url(str(x)) for x in data if x] of load_seen_urls.
RECURSIVE tracking_NormalizeEach(_)
tracking_NormalizeEach(data) ==
    IF data = <<>> THEN <<>>
    ELSE IF Head(data) = <<>> THEN tracking_NormalizeEach(Tail(data))
    ELSE <<tracking_normalize_url(Head(data))>> \o tracking_NormalizeEach(Tail(data))

\* What load_seen_urls returns once the path is known.
tracking_load_value(content, fault) ==
    IF content.kind = "absent" THEN <<>>
    ELSE IF fault = "read" \/ content.kind # "list" THEN <<>>
    ELSE tracking_NormalizeEach(content.data)

\* The loop of save_seen_urls.
RECURSIVE tracking_SaveLoop(_, _)
tracking_SaveLoop(urls, uniq) ==
    IF urls = <<>> THEN uniq
    ELSE LET nu == tracking_normalize_url(Head(urls))
         IN  IF nu # <<>> /\ \A i \in 1..Len(uniq) : uniq[i] # nu
             THEN tracking_SaveLoop(Tail(urls), Append(uniq, nu))
             ELSE tracking_SaveLoop(Tail(urls), uniq)

\* The file after save_seen_urls ran with the given fault.
tracking_saved_content(content, urls, fault) ==
    CASE fault = "none" -> [kind |-> "list", data |-> tracking_SaveLoop(urls, <<>>)]
      [] fault = "dump" -> [kind |-> "junk", data |-> <<>>]
      [] OTHER          -> content

\* save_seen_urls has no exception handler.
tracking_save_status(fault) == IF fault = "none" THEN "ok" ELSE "raised"

\* load_seen_urls: seen_file_path (and with it os.makedirs) runs outside the
\* try block.
tracking_load_status(fault) == IF fault = "mkdir" THEN "raised" ELSE "ok"

\* ------------------------------------------------------------------------
\* NewsletterGenerator.check_brand_guidelines: texts
\* ------------------------------------------------------------------------

\* A text is the sequence of its words, in the string single spaces stand
\* between them; the word "" is an empty string between two separators (an
\* empty field of the content).  A word holds no whitespace.

\* config.brand_guidelines.BRAND_GUIDELINES, the entries the checker reads.
BRAND_GUIDELINES ==
    [briteco_brand |->
        [forbidden_terms |->
            << <<"insurance", "company">>,
               <<"specialized", "jewelry", "insurance">>,
               <<"AM", "Best", "policies">>,
               <<"we", "are", "AM", "Best">>,
               <<"www.brite.co">> >>,
         required_terms |->
            << [use |-> <<"insurtech", "company">>,
                for |-> {<<"insurance", "company">>}],
               [use |-> <<"insurance", "provider">>,
                for |-> {<<"insurance", "company">>}],
               [use |-> <<"specialty", "jewelry", "insurance", "provider">>,
                for |-> {<<"specialized", "jewelry", "insurance">>}],
               [use |-> <<"backed", "by", "an", "AM", "Best", "A+", "rated",
                          "Insurance", "Carrier">>,
                for |-> {<<"AM", "Best", "policies">>, <<"we", "are", "AM", "Best">>}],
               [use |-> <<"brite.co">>, for |-> {<<"www.brite.co">>}],
               [use |-> <<"https://brite.co">>, for |-> {<<"www.brite.co">>}] >>],
     tone |->
        [wedding_insurance |->
            [corrections |->
                << [term |-> <<"bridal", "party">>, use |-> <<"wedding", "party">>],
                   [term |-> <<"groomsmen">>, use |-> <<"groom", "crew">>],
                   [term |-> <<"bride", "and", "groom">>, use |-> <<"partner">>],
                   [term |-> <<"bride">>, use |-> <<"partner">>],
                   [term |-> <<"groom">>, use |-> <<"partner">>] >>]]]

\* The list gendered_terms of check_brand_guidelines.
gendered_terms ==
    << <<"bride", "and", "groom">>, <<"bridal", "party">>, <<"groomsmen">>,
       <<"bridesmaid">> >>

\* str.lower() on one word of a text; words without upper-case letters are
\* unchanged.
LowerWord(w) ==
    CASE w = "Insurance"    -> "insurance"
      [] w = "Company"      -> "company"
      [] w = "AM"           -> "am"
      [] w = "Best"         -> "best"
      [] w = "Lab"          -> "lab"
      [] w = "Grown"        -> "grown"
      [] w = "Lab-Grown"    -> "lab-grown"
      [] w = "WWW.Brite.co" -> "www.brite.co"
      [] w = "Bridesmaids"  -> "bridesmaids"
      [] w = "And"          -> "and"
      [] OTHER              -> w

lowerText(t) == [i \in 1..Len(t) |-> LowerWord(t[i])]

\* Word w starts with p (str.startswith), for the words of the texts: apart
\* from w = p, a plural or compound that begins with p, or p and a comma.
StartsWith(w, p) ==
    \/ w = p
    \/ p = "bridesmaid" /\ w = "bridesmaids"
    \/ p = "groom" /\ w = "groomsmen"
    \/ p = "loss" /\ w = "loss,"
    \/ p = "damages" /\ w = "damages,"

\* Word w ends with p (str.endswith): no word of the texts ends with the
\* first word of a term without being that word.
EndsWith(w, p) == w = p

\* p occurs inside the single word w.
WordHas(w, p) == StartsWith(w, p) \/ EndsWith(w, p)

\* `pat in text` for a pattern of whole words separated by single spaces:
\* it starts at the end of some word of the text, runs over whole words and
\* ends at the start of a word.
Occurs(pat, text) ==
    IF Len(pat) = 1 THEN \E i \in 1..Len(text) : WordHas(text[i], pat[1])
    ELSE \E i \in 1..(Len(text) - Len(pat) + 1) :
            /\ EndsWith(text[i], pat[1])
            /\ \A j \in 2..(Len(pat) - 1) : text[i + j - 1] = pat[j]
            /\ StartsWith(text[i + Len(pat) - 1], pat[Len(pat)])

\* Words made of \w characters only (letters, digits, "_"), not empty.
PureWords ==
    {"insurance", "Insurance", "company", "Company", "specialized", "jewelry",
     "AM", "Best", "policies", "we", "are", "lab", "Lab", "grown", "Grown",
     "bride", "and", "And", "groom", "bridal", "party", "groomsmen",
     "bridesmaid", "bridesmaids", "Bridesmaids", "loss", "damages", "big", "ok"}

\* Words that end in a \w character followed by a comma.
CommaWords == {"theft,", "loss,", "damages,"}

\* Words that start with a \w character: every word but the empty one.
StartsWithWordChar(w) == w # ""

\* re.findall(r'\w+,\s+\w+\s+and\s+\w+', text): the indices, among the words
\* that are not empty, where a match starts; a match covers four words and
\* the next search starts behind it.
RECURSIVE FindAllFrom(_, _)
FindAllFrom(ws, i) ==
    IF i + 3 > Len(ws) THEN <<>>
    ELSE IF /\ ws[i] \in CommaWords
            /\ ws[i + 1] \in PureWords
            /\ ws[i + 2] = "and"
            /\ StartsWithWordChar(ws[i + 3])
         THEN <<i>> \o FindAllFrom(ws, i + 4)
         ELSE FindAllFrom(ws, i + 1)

findall_no_serial_comma(text) ==
    FindAllFrom(SelectSeq(text, LAMBDA w : w # ""), 1)

\* ------------------------------------------------------------------------
\* NewsletterGenerator.check_brand_guidelines: the report
\* ------------------------------------------------------------------------

\* A content is the sequence of the values of the dict, in its order; a
\* value is [kind |-> "str", text |-> its words] or a value that is no
\* string (text then holds the words of a string nested in it).

\* all_text = " ".join([str(v) for v in content.values() if isinstance(v, str)])
RECURSIVE all_text_of(_)
all_text_of(content) ==
    IF content = <<>> THEN <<>>
    ELSE IF Head(content).kind = "str"
         THEN Head(content).text \o all_text_of(Tail(content))
         ELSE all_text_of(Tail(content))

\* One entry of issues for a forbidden term.
ForbiddenIssue(term) ==
    [severity |-> "error", rule |-> "BriteCo Brand",
     issue |-> <<"Forbidden", "term", "found:">> \o term,
     suggestion |-> <<"Use", "approved", "terminology", "instead">>]

\* A scan that looks for the terms as they are written.
ForbiddenIssues_case_sensitive(forbidden, all_text) ==
    LET found == SelectSeq(forbidden, LAMBDA term : Occurs(term, all_text))
    IN  [i \in 1..Len(found) |-> ForbiddenIssue(found[i])]

\* for term in forbidden: if term.lower() in all_text.lower(): issues.append
ForbiddenIssues(forbidden, all_text) ==
    LET found == SelectSeq(forbidden,
                           LAMBDA term : Occurs(lowerText(term), lowerText(all_text)))
    IN  [i \in 1..Len(found) |-> ForbiddenIssue(found[i])]

\* corrections.get(term, "Use gender-neutral language")
corrections_get(corrections, term) ==
    LET I == {i \in 1..Len(corrections) : corrections[i].term = term}
    IN  IF I = {} THEN <<"Use", "gender-neutral", "language">>
        ELSE corrections[CHOOSE i \in I : TRUE].use

\* One entry of warnings for a gendered term.
GenderedWarning(corrections, term) ==
    [severity |-> "warning", rule |-> "Inclusive Language",
     issue |-> <<"Gendered", "term", "found:">> \o term,
     suggestion |-> <<"Consider", "using:">> \o corrections_get(corrections, term)]

\* for term in gendered_terms: if term.lower() in all_text.lower():
\* warnings.append
GenderedWarnings(corrections, all_text) ==
    LET found == SelectSeq(gendered_terms,
                           LAMBDA term : Occurs(lowerText(term), lowerText(all_text)))
    IN  [i \in 1..Len(found) |-> GenderedWarning(corrections, found[i])]

SerialCommaWarning ==
    [severity |-> "warning", rule |-> "Punctuation",
     issue |-> <<"Possible", "missing", "serial", "comma">>,
     suggestion |-> <<"Use", "serial", "commas", "in", "lists:", "'a,", "b,",
                      "and", "c'">>]

\* A check that appends one warning for every match of the pattern.
SerialCommaWarnings_per_match(all_text) ==
    [i \in 1..Len(findall_no_serial_comma(all_text)) |-> SerialCommaWarning]

\* if no_serial_comma: warnings.append
SerialCommaWarnings(all_text) ==
    IF findall_no_serial_comma(all_text) # <<>> THEN <<SerialCommaWarning>> ELSE <<>>

WebsiteIssue ==
    [severity |-> "error", rule |-> "BriteCo Brand",
     issue |-> <<"Incorrect", "website", "reference:", "www.brite.co">>,
     suggestion |-> <<"Use", "brite.co", "or", "https://brite.co">>]

\* A check for the address that ignores letter case.
WebsiteIssues_any_case(all_text) ==
    IF Occurs(<<"www.brite.co">>, lowerText(all_text)) THEN <<WebsiteIssue>> ELSE <<>>

\* if 'www.brite.co' in all_text: issues.append
WebsiteIssues(all_text) ==
    IF Occurs(<<"www.brite.co">>, all_text) THEN <<WebsiteIssue>> ELSE <<>>

LabGrownIssue ==
    [severity |-> "error", rule |-> "Punctuation",
     issue |-> <<"'lab", "grown'", "should", "be", "hyphenated">>,
     suggestion |-> <<"Use", "'lab-grown'">>]

\* if 'lab grown' in all_text.lower() and 'lab-grown' not in all_text
LabGrownIssues(all_text) ==
    IF /\ Occurs(<<"lab", "grown">>, lowerText(all_text))
       /\ ~Occurs(<<"lab-grown">>, all_text)
    THEN <<LabGrownIssue>> ELSE <<>>

\* A result whose passed flag also asks for no warnings.
Result_warnings_fail(issues, warnings, checked_at) ==
    [passed |-> Len(issues) = 0 /\ Len(warnings) = 0,
     total_issues |-> Len(issues),
     total_warnings |-> Len(warnings),
     issues |-> issues,
     warnings |-> warnings,
     checked_at |-> checked_at]

\* A result whose count of warnings depends on the time of the call.
Result_time_dependent(issues, warnings, checked_at) ==
    [passed |-> Len(issues) = 0,
     total_issues |-> Len(issues),
     total_warnings |-> Len(warnings) + checked_at,
     issues |-> issues,
     warnings |-> warnings,
     checked_at |-> checked_at]

\* The result dict, from the two lists.
Result(issues, warnings, checked_at) ==
    [passed |-> Len(issues) = 0,
     total_issues |-> Len(issues),
     total_warnings |-> Len(warnings),
     issues |-> issues,
     warnings |-> warnings,
     checked_at |-> checked_at]

\* The checks in the order of the code: forbidden terms, gendered terms,
\* serial comma, www.brite.co, lab grown.
CheckText(all_text, brand_guidelines, checked_at) ==
    Result(ForbiddenIssues(brand_guidelines.briteco_brand.forbidden_terms, all_text)
               \o WebsiteIssues(all_text) \o LabGrownIssues(all_text),
           GenderedWarnings(brand_guidelines.tone.wedding_insurance.corrections,
                            all_text)
               \o SerialCommaWarnings(all_text),
           checked_at)

\* NewsletterGenerator.check_brand_guidelines(content) at time checked_at.
check_brand_guidelines(content, brand_guidelines, checked_at) ==
    CheckText(all_text_of(content), brand_guidelines, checked_at)

\* d[a][b][c] finds its three keys.
HasCorrections(brand_guidelines) ==
    /\ "tone" \in DOMAIN brand_guidelines
    /\ "wedding_insurance" \in DOMAIN brand_guidelines.tone
    /\ "corrections" \in DOMAIN brand_guidelines.tone.wedding_insurance

\* The exception a call of check_brand_guidelines ends with, "none" when it
\* returns its result.  type is the type of the content object: only a dict
\* has values(); the forbidden terms are looked up before the loop, the
\* corrections inside it, when a gendered term is in the text.
check_raises(type, content, brand_guidelines) ==
    IF type # "dict" THEN "AttributeError"
    ELSE IF \/ "briteco_brand" \notin DOMAIN brand_guidelines
            \/ "forbidden_terms" \notin DOMAIN brand_guidelines.briteco_brand
         THEN "KeyError"
    ELSE IF /\ \E i \in 1..Len(gendered_terms) :
                  Occurs(lowerText(gendered_terms[i]),
                         lowerText(all_text_of(content)))
            /\ ~HasCorrections(brand_guidelines)
         THEN "KeyError"
    ELSE "none"

\* ------------------------------------------------------------------------
\* Inputs
\* ------------------------------------------------------------------------

MaxLen == 3
MaxOps == 2

GenToks == {"http", "X.com", "p", ":", "/", "?", "#", "&", "=", ";", " ", "[",
            "utm_source", "%26"}

RECURSIVE SeqsUpTo(_, _)
SeqsUpTo(S, n) ==
    IF n = 0 THEN {<<>>}
    ELSE LET R == SeqsUpTo(S, n - 1)
         IN  R \cup {Append(r, x) : r \in {q \in R : Len(q) = n - 1}, x \in S}

SchemeParts == {<<>>, <<"http", ":">>, <<"HTTP", ":">>}
AuthParts   == {<<>>, <<"/", "/">>, <<"/", "/", "x.com">>, <<"/", "/", "X.com">>}
PathParts   == {<<>>, <<"/">>, <<"/", "P">>, <<"/", "/", "p">>, <<"/", "p", " ">>,
                <<"/", "p", ";", "k">>}
QueryParts  == {<<>>, <<"?">>, <<"?", "k", "=", "v">>, <<"?", "UTM_SOURCE", "=", "v">>,
                <<"?", "k", "&", "gclid", "=", "v", "&", "K", "=">>,
                <<"?", "k", "=", "%26", "+">>}
FragParts   == {<<>>, <<"#", "v">>}

\* The parameter names appended in NormalizeTagged: the ten names tracking
\* links carry.
TagKeys == {<<"utm_source">>, <<"utm_medium">>, <<"utm_campaign">>, <<"utm_term">>,
            <<"utm_content">>, <<"gclid">>, <<"fbclid">>, <<"mc_cid">>, <<"mc_eid">>,
            <<"mkt_tok">>}

\* The other letter case of a token, for the URLs that differ in case only.
SwapTok(t) ==
    CASE t = "HTTP"  -> "http"
      [] t = "http"  -> "HTTP"
      [] t = "X.com" -> "x.com"
      [] t = "x.com" -> "X.com"
      [] t = "P"     -> "p"
      [] t = "p"     -> "P"
      [] t = "K"     -> "k"
      [] t = "k"     -> "K"
      [] OTHER       -> t

SwapAt(u, i) == [u EXCEPT ![i] = SwapTok(u[i])]

\* Index of the first token of u that is no whitespace, less one.
LeadLen(u) == Len(u) - Len(lstrip(u))

\* Where the text after the scheme starts in s, and where its "//" host
\* ends (the index of the delimiter after it, Len(s) + 1 when none follows);
\* AfterAuth = AfterScheme when there is no "//".
AfterScheme(s) == IF SchemeLen(s) > 0 THEN SchemeLen(s) + 2 ELSE 1

AfterAuth(s) ==
    LET r == AfterScheme(s)
    IN  IF Len(s) > r /\ s[r] = "/" /\ s[r + 1] = "/"
        THEN LET e == find(s, {"/", "?", "#"}, r + 2)
             IN  IF e = 0 THEN Len(s) + 1 ELSE e
        ELSE r

\* Indices of u that hold its scheme or the host after "//".
HostRegion(u) ==
    LET s == strip(u)
    IN  {LeadLen(u) + i : i \in (1..SchemeLen(s)) \cup
                                ((AfterScheme(s) + 2)..(AfterAuth(s) - 1))}

\* Indices of u that hold its path (with the params), up to "?" or "#".
PathRegion(u) ==
    LET s == strip(u)
        e == find(s, {"?", "#"}, AfterAuth(s))
    IN  {LeadLen(u) + i : i \in AfterAuth(s)..(IF e = 0 THEN Len(s) ELSE e - 1)}

\* URLs that differ from u in the fragment only: u with another fragment,
\* without its fragment, or with one added.
FragmentVariants(u) ==
    LET h == find(u, {"#"}, 1)
    IN  IF h = 0 THEN {u \o <<"#", "v">>}
        ELSE {SubSeq(u, 1, h - 1), SubSeq(u, 1, h) \o <<"k">>} \ {u}

U_plain == <<"http", ":", "/", "/", "x.com", "/", "p">>
U_track == <<"HTTP", ":", "/", "/", "X.com", "/", "p", "?", "utm_source", "=", "v">>
U_space == <<"http", ":", "/", "/", "x.com", "/", "p", " ", "#", "v">>
U_other == <<"http", ":", "/", "/", "x.com", "/", "k">>
\* A URL urlparse rejects ("Invalid IPv6 URL"), with whitespace around it.
U_bracket == <<" ", "http", ":", "/", "/", "[", "X.com", "/", "P", " ">>

Urls ==
    SeqsUpTo(GenToks, MaxLen) \cup
    {s \o a \o p \o q \o f : s \in SchemeParts, a \in AuthParts, p \in PathParts,
                             q \in QueryParts, f \in FragParts} \cup
    {U_bracket}

UrlLists == {<<>>, <<U_other>>, <<U_space>>, <<U_track, U_plain>>,
             <<U_space, U_plain>>, <<<<>>, U_other>>}

Sections == {<<"news">>, <<"News">>, <<"..", "/", "tips">>}

\* Section names made of lower-case alphanumerics, "_" and "-" only.
PlainSections == {<<"news">>, <<"tips">>}

FileKeys == {file_for(s) : s \in Sections} \cup {seen_file_path(s) : s \in Sections}

Absent == [kind |-> "absent", data |-> <<>>]

InitContents == {Absent,
                 [kind |-> "junk", data |-> <<>>],
                 [kind |-> "list", data |-> <<U_plain, U_plain>>],
                 [kind |-> "list", data |-> <<U_track, <<>>, U_plain>>]}

Clients == {1, 2}

LoadFaults == {"none", "mkdir", "read"}
\* "open": os.makedirs or open(path, "w") raises, the file is not touched;
\* "dump": the write fails after open(path, "w") truncated the file.
SaveFaults == {"none", "open", "dump"}

\* ------------------------------------------------------------------------
\* check_brand_guidelines: inputs, state and actions
\* ------------------------------------------------------------------------

MaxFields == 2
MaxTicks == 1

\* The strings of the contents: phrases with and without the terms the
\* checker looks for, in both letter cases, and the empty string.
Phrases ==
    {<<"">>, <<"ok">>,
     <<"insurance", "company">>, <<"Insurance", "Company">>,
     <<"insurance">>, <<"company">>,
     <<"specialized", "jewelry", "insurance">>,
     <<"AM", "Best", "policies">>, <<"we", "are", "AM", "Best">>,
     <<"www.brite.co">>, <<"WWW.Brite.co">>,
     <<"lab", "grown">>, <<"Lab", "Grown">>, <<"lab-grown">>, <<"Lab-Grown">>,
     <<"bride", "and", "groom">>, <<"bridal", "party">>, <<"groomsmen">>,
     <<"Bridesmaids">>,
     <<"theft,", "loss", "and", "damages">>,
     <<"theft,", "loss,", "and", "damages">>,
     <<"theft,", "big", "loss", "and", "damages">>,
     <<"loss,">>}

\* The values of a content: strings, a number, and a dict with a string
\* inside.
Values ==
    {[kind |-> "str", text |-> p] : p \in Phrases} \cup
    {[kind |-> "int", text |-> <<>>],
     [kind |-> "dict", text |-> <<"insurance", "company">>]}

Contents == SeqsUpTo(Values, MaxFields)

\* The values of the contents that are checked against the rule sets: with
\* and without a forbidden term, with and without a gendered term.
RuleValues ==
    {[kind |-> "str", text |-> p] :
        p \in {<<"ok">>, <<"insurance", "company">>, <<"bridal", "party">>,
               <<"Bridesmaids">>, <<"theft,", "loss", "and", "damages">>}} \cup
    {[kind |-> "int", text |-> <<>>]}

RuleContents == SeqsUpTo(RuleValues, MaxFields)

\* What the caller may pass as content: a dict, a list of the same values,
\* None.
ContentTypes == {"dict", "list", "NoneType"}

\* Rule sets: the configured one, and rule sets that lack a category or a
\* rule list, or hold an empty one.
RuleSets ==
    {BRAND_GUIDELINES,
     [tone |-> BRAND_GUIDELINES.tone],
     [briteco_brand |-> BRAND_GUIDELINES.briteco_brand],
     [briteco_brand |-> [required_terms |-> BRAND_GUIDELINES.briteco_brand.required_terms],
      tone |-> BRAND_GUIDELINES.tone],
     [briteco_brand |-> BRAND_GUIDELINES.briteco_brand,
      tone |-> [jewelry |-> <<>>]],
     [briteco_brand |-> BRAND_GUIDELINES.briteco_brand,
      tone |-> [wedding_insurance |-> [rules |-> <<>>]]],
     [BRAND_GUIDELINES EXCEPT !.briteco_brand.forbidden_terms = <<>>],
     [BRAND_GUIDELINES EXCEPT !.tone.wedding_insurance.corrections = <<>>]}

\* ------------------------------------------------------------------------
\* demo_api_server: multi_search and search_all_signals
\* ------------------------------------------------------------------------

MaxQueries == 3
MaxResp == 2
MaxWanted == 2

\* The entries of SIGNAL_QUERIES.
NumSignals == 8

\* URLs of search results.
SearchUrls == {"a", "b", "x"}

\* One item of the list the search backend returned: a dict with its 'url'
\* entry ("" when it has none) and its 'signal_source' tag (0: none), or a
\* value that is no dict.
ResultItems ==
    {[kind |-> "dict", url |-> u, signal_source |-> 0] : u \in SearchUrls \cup {""}}
    \cup {[kind |-> "other", url |-> "", signal_source |-> 0]}

\* What one call of openai_client.search_web_responses_api does: it raises,
\* or it returns a list of items.
BackendOutcomes ==
    {[raised |-> TRUE, results |-> <<>>]} \cup
    {[raised |-> FALSE, results |-> r] : r \in SeqsUpTo(ResultItems, MaxResp)}

\* The caller's exclude_urls.
ExcludeLists == {{}, {"x"}, {"a", "x"}}

\* multi_search, the loop over the results of one query: r.get of an item
\* that is no dict raises and leaves the loop with what was merged so far.
RECURSIVE multi_merge(_, _)
multi_merge(results, acc) ==
    IF results = <<>> THEN acc
    ELSE IF Head(results).kind # "dict" THEN [acc EXCEPT !.raised = TRUE]
    ELSE IF Head(results).url # "" /\ Head(results).url \notin acc.seen_urls
         THEN multi_merge(Tail(results),
                          [acc EXCEPT !.all_results = Append(@, Head(results)),
                                      !.seen_urls = @ \cup {Head(results).url}])
         ELSE multi_merge(Tail(results), acc)

\* search_all_signals, the loop over the results of one signal: a new result
\* is tagged with the signal that found it.
RECURSIVE signal_merge(_, _, _)
signal_merge(results, acc, signal) ==
    IF results = <<>> THEN acc
    ELSE IF Head(results).kind # "dict" THEN [acc EXCEPT !.raised = TRUE]
    ELSE IF Head(results).url # "" /\ Head(results).url \notin acc.seen_urls
         THEN signal_merge(Tail(results),
                           [acc EXCEPT
                              !.all_results =
                                  Append(@, [Head(results) EXCEPT !.signal_source = signal]),
                              !.seen_urls = @ \cup {Head(results).url}],
                           signal)
         ELSE signal_merge(Tail(results), acc, signal)

\* all_results[:max_results] for max_results >= 0.
Slice(all_results, max_results) ==
    SubSeq(all_results, 1, IF Len(all_results) < max_results THEN Len(all_results)
                           ELSE max_results)

\* ------------------------------------------------------------------------
\* State
\* ------------------------------------------------------------------------

VARIABLES
    url,      \* normaliser: the input string
    n1,       \* normalize_url(url)
    n2,       \* normalize_url(n1)
    ntag,     \* normalize_url(url + "&k=v")
    npc,      \* normaliser: "in", "once", "twice", "tagged", "variant"
    alt,      \* normaliser: a second URL, how it differs from url, its result
    files,    \* file name -> content of DATA_DIR
    written,  \* file names whose content a completed save_seen wrote
    pc,       \* client -> "idle" | "loaded" (append_seen between load and save)
    loc,      \* client -> locals of its append_seen call
    last,     \* the last completed call: arguments, outcome and what it found
    nops,     \* calls started
    content,  \* checker: the content dict
    report,   \* checker: the dict check_brand_guidelines returned
    cpc,      \* checker: "in", "checked", "rechecked", "raised"
    clock,    \* checker: what datetime.now() reads
    brand_guidelines, \* checker: self.brand_guidelines, the rule set
    ctype,    \* checker: the type of the content object
    raised,   \* checker: the exception the call ended with, or "none"
    report2,  \* checker: the dict a second call on the same content returned
    tfiles,   \* url_tracking run side by side: file name -> content
    tlast,    \* url_tracking run side by side: outcome of its last call
    search    \* multi_search / search_all_signals: arguments, locals, result

vars == <<url, n1, n2, ntag, npc, alt, files, written, pc, loc, last, nops,
          content, report, cpc, clock, brand_guidelines, ctype, raised, report2,
          tfiles, tlast, search>>
normVars == <<url, n1, n2, ntag, npc, alt>>
storeVars == <<files, written, pc, loc, last, nops>>
checkVars == <<content, report, cpc, clock, brand_guidelines, ctype, raised,
               report2>>

trackVars == <<tfiles, tlast>>
searchVars == <<search>>

\* No search function is running.  late: a query was issued although
\* all_results held max_results results.
NoSearch == [fn |-> "none", pc |-> "off", i |-> 0, queries |-> 0, max_results |-> 0,
             exclude_urls |-> {}, all_results |-> <<>>, seen_urls |-> {},
             returned |-> <<>>, late |-> FALSE]

NoReport == Result(<<>>, <<>>, 0)

NoTrack == [op |-> "none", status |-> "ok", value |-> <<>>, n |-> <<>>]

NoAlt == [kind |-> "none", url |-> <<>>, n |-> <<>>]

NoLoc == [section |-> <<>>, new_urls |-> <<>>, prev |-> <<>>, pre |-> Absent,
          clean |-> FALSE, overlapped |-> FALSE]

NoCall == [op |-> "none", impl |-> "none", section |-> <<>>,
           key |-> <<>>, urls |-> <<>>, fault |-> "none", status |-> "ok",
           value |-> <<>>, pre |-> Absent, clean |-> FALSE, overlapped |-> FALSE,
           after |-> "none"]

\* ------------------------------------------------------------------------
\* Normaliser actions
\* ------------------------------------------------------------------------

Normalize ==
    /\ npc = "in"
    /\ n1' = normalize_url(url)
    /\ npc' = "once"
    /\ UNCHANGED <<url, n2, ntag, alt>> /\ UNCHANGED storeVars /\ UNCHANGED checkVars /\ UNCHANGED trackVars /\ UNCHANGED searchVars

Renormalize ==
    /\ npc = "once"
    /\ n2' = normalize_url(n1)
    /\ npc' = "twice"
    /\ UNCHANGED <<url, n1, ntag, alt>> /\ UNCHANGED storeVars /\ UNCHANGED checkVars /\ UNCHANGED trackVars /\ UNCHANGED searchVars

NormalizeTagged(k) ==
    /\ npc = "once"
    /\ ntag' = normalize_url(url \o <<"&">> \o k \o <<"=", "v">>)
    /\ npc' = "tagged"
    /\ UNCHANGED <<url, n1, n2, alt>> /\ UNCHANGED storeVars /\ UNCHANGED checkVars /\ UNCHANGED trackVars /\ UNCHANGED searchVars

\* normalize_url on a URL that differs from url in the letter case of one
\* token of its scheme or host, or of its path.
NormalizeCaseVariant(i) ==
    /\ npc = "once"
    /\ i \in HostRegion(url) \cup PathRegion(url)
    /\ SwapTok(url[i]) # url[i]
    /\ alt' = [kind |-> IF i \in HostRegion(url) THEN "host" ELSE "path",
               url |-> SwapAt(url, i),
               n |-> normalize_url(SwapAt(url, i))]
    /\ npc' = "variant"
    /\ UNCHANGED <<url, n1, n2, ntag>> /\ UNCHANGED storeVars /\ UNCHANGED checkVars /\ UNCHANGED trackVars /\ UNCHANGED searchVars

\* normalize_url on a URL that differs from url in its fragment only.
NormalizeFragmentVariant(v) ==
    /\ npc = "once"
    /\ v \in FragmentVariants(url)
    /\ alt' = [kind |-> "fragment", url |-> v, n |-> normalize_url(v)]
    /\ npc' = "variant"
    /\ UNCHANGED <<url, n1, n2, ntag>> /\ UNCHANGED storeVars /\ UNCHANGED checkVars /\ UNCHANGED trackVars /\ UNCHANGED searchVars

StoreInit ==
    /\ \E found \in InitContents : files = [k \in FileKeys |-> found]
    /\ written = {}
    /\ pc = [c \in Clients |-> "idle"]
    /\ loc = [c \in Clients |-> NoLoc]
    /\ last = NoCall
    /\ nops = 0

NormInit ==
    /\ url \in Urls
    /\ n1 = <<>> /\ n2 = <<>> /\ ntag = <<>>
    /\ npc = "in"
    /\ alt = NoAlt

\* The checker is not called.
TrackOff ==
    /\ tfiles = [k \in FileKeys |-> Absent] /\ tlast = NoTrack
    /\ search = NoSearch

CheckOff ==
    /\ content = <<>> /\ report = NoReport /\ cpc = "off" /\ clock = 0
    /\ brand_guidelines = BRAND_GUIDELINES /\ ctype = "dict"
    /\ raised = "none" /\ report2 = NoReport

InitNorm ==
    /\ NormInit
    /\ CheckOff
    /\ TrackOff
    /\ files = [k \in FileKeys |-> Absent]
    /\ written = {} /\ pc = [c \in Clients |-> "idle"]
    /\ loc = [c \in Clients |-> NoLoc] /\ last = NoCall /\ nops = 0

NextNorm ==
    \/ Normalize
    \/ Renormalize
    \/ \E k \in TagKeys : NormalizeTagged(k)
    \/ \E i \in 1..Len(url) : NormalizeCaseVariant(i)
    \/ \E v \in FragmentVariants(url) : NormalizeFragmentVariant(v)

SpecNorm == InitNorm /\ [][NextNorm]_vars

\* ------------------------------------------------------------------------
\* Store actions
\* ------------------------------------------------------------------------

\* Clients, other than c, that are inside append_seen on the same file.
PendingOn(c, key) ==
    {d \in Clients \ {c} : pc[d] = "loaded" /\ file_for(loc[d].section) = key}

\* A write to key reaches every client that loaded it and has not saved yet.
MarkOverlap(c, key) ==
    [d \in Clients |->
        IF d \in PendingOn(c, key) THEN [loc[d] EXCEPT !.overlapped = TRUE]
        ELSE loc[d]]

\* The files whose content stems from a completed save.
WrittenAfter(key, fault) ==
    CASE fault = "none" -> written \cup {key}
      [] fault = "dump" -> written \ {key}
      [] OTHER          -> written

DoLoad(c, impl, key, section, fault) ==
    /\ pc[c] = "idle"
    /\ nops < MaxOps
    /\ nops' = nops + 1
    /\ last' = [NoCall EXCEPT
                 !.op = "load", !.impl = impl, !.section = section,
                 !.key = key, !.fault = fault, !.status = load_status(fault),
                 !.value = IF load_status(fault) = "raised" THEN <<>>
                           ELSE load_value(files[key], fault),
                 !.pre = files[key],
                 !.clean = key \in written,
                 !.urls = IF last.key = key THEN last.urls ELSE <<>>,
                 !.after = IF last.key = key /\ last.status = "ok"
                              /\ last.op \in {"save", "append"}
                              /\ ~last.overlapped
                           THEN last.op ELSE "none"]
    /\ UNCHANGED <<files, written, pc, loc>> /\ UNCHANGED normVars /\ UNCHANGED checkVars /\ UNCHANGED trackVars /\ UNCHANGED searchVars

DoSave(c, impl, key, section, urls, fault) ==
    /\ pc[c] = "idle"
    /\ nops < MaxOps
    /\ nops' = nops + 1
    /\ files' = [files EXCEPT ![key] = saved_content(@, urls, fault)]
    /\ written' = WrittenAfter(key, fault)
    /\ loc' = IF fault \in {"none", "dump"} THEN MarkOverlap(c, key) ELSE loc
    /\ last' = [NoCall EXCEPT
                 !.op = "save", !.impl = impl, !.section = section,
                 !.key = key, !.urls = urls, !.fault = fault,
                 !.status = save_status(fault), !.pre = files[key],
                 !.clean = key \in written]
    /\ UNCHANGED pc /\ UNCHANGED normVars /\ UNCHANGED checkVars /\ UNCHANGED trackVars /\ UNCHANGED searchVars

\* seen_store.load_seen(section)
load_seen(c, section, fault) ==
    DoLoad(c, "seen_store", file_for(section), section, fault)

\* url_tracking.load_seen_urls(section_key)
load_seen_urls(c, section_key, fault) ==
    DoLoad(c, "url_tracking", seen_file_path(section_key), section_key, fault)

\* seen_store.save_seen(section, urls)
save_seen(c, section, urls, fault) ==
    DoSave(c, "seen_store", file_for(section), section, urls, fault)

\* url_tracking.save_seen_urls(section_key, urls)
save_seen_urls(c, section_key, urls, fault) ==
    DoSave(c, "url_tracking", seen_file_path(section_key), section_key, urls, fault)

\* seen_store.append_seen, first statement: prev = load_seen(section).  When
\* load_seen raises, append_seen ends here with the exception.
append_seen_load(c, section, new_urls, fault) ==
    LET key == file_for(section)
    IN  /\ pc[c] = "idle"
        /\ nops < MaxOps
        /\ nops' = nops + 1
        /\ IF load_status(fault) = "raised"
           THEN /\ last' = [NoCall EXCEPT
                             !.op = "append", !.impl = "seen_store",
                             !.section = section, !.key = key, !.urls = new_urls,
                             !.fault = fault, !.status = "raised",
                             !.pre = files[key], !.clean = key \in written]
                /\ UNCHANGED <<pc, loc>>
           ELSE /\ pc' = [pc EXCEPT ![c] = "loaded"]
                /\ loc' = [loc EXCEPT ![c] =
                             [section |-> section, new_urls |-> new_urls,
                              prev |-> load_value(files[key], fault),
                              pre |-> files[key],
                              clean |-> key \in written /\ fault = "none",
                              overlapped |-> PendingOn(c, key) # {}]]
                /\ UNCHANGED last
        /\ UNCHANGED <<files, written>> /\ UNCHANGED normVars /\ UNCHANGED checkVars /\ UNCHANGED trackVars /\ UNCHANGED searchVars

\* seen_store.append_seen, second statement:
\* save_seen(section, [*new_urls, *prev]).
append_seen_save(c, fault) ==
    LET key  == file_for(loc[c].section)
        urls == append_arg(loc[c].new_urls, loc[c].prev)
    IN  /\ pc[c] = "loaded"
        /\ files' = [files EXCEPT ![key] = saved_content(@, urls, fault)]
        /\ written' = WrittenAfter(key, fault)
        /\ pc' = [pc EXCEPT ![c] = "idle"]
        /\ loc' = [(IF fault \in {"none", "dump"} THEN MarkOverlap(c, key) ELSE loc)
                     EXCEPT ![c] = NoLoc]
        /\ last' = [NoCall EXCEPT
                     !.op = "append", !.impl = "seen_store",
                     !.section = loc[c].section, !.key = key,
                     !.urls = loc[c].new_urls, !.fault = fault,
                     !.status = save_status(fault), !.pre = loc[c].pre,
                     !.clean = loc[c].clean,
                     !.overlapped = loc[c].overlapped \/ PendingOn(c, key) # {}]
        /\ UNCHANGED nops /\ UNCHANGED normVars /\ UNCHANGED checkVars /\ UNCHANGED trackVars /\ UNCHANGED searchVars

Init ==
    /\ StoreInit
    /\ url = <<>> /\ n1 = <<>> /\ n2 = <<>> /\ ntag = <<>> /\ npc = "off"
    /\ alt = NoAlt
    /\ CheckOff
    /\ TrackOff

\* Two clients of seen_store whose calls interleave; the storage works.
Next ==
    \/ \E c \in Clients, s \in Sections : load_seen(c, s, "none")
    \/ \E c \in Clients, s \in Sections, u \in UrlLists : save_seen(c, s, u, "none")
    \/ \E c \in Clients, s \in Sections, u \in UrlLists :
          append_seen_load(c, s, u, "none")
    \/ \E c \in Clients : append_seen_save(c, "none")

Spec == Init /\ [][Next]_vars

\* One client of seen_store, its calls run one at a time; the storage may
\* fail in any call.
NextFaults ==
    \/ \E s \in Sections, f \in LoadFaults : load_seen(1, s, f)
    \/ \E s \in Sections, u \in UrlLists, f \in SaveFaults : save_seen(1, s, u, f)
    \/ \E s \in Sections, u \in UrlLists, f \in LoadFaults :
          append_seen_load(1, s, u, f)
    \/ \E f \in SaveFaults : append_seen_save(1, f)

SpecFaults == Init /\ [][NextFaults]_vars

\* One client of seen_store, its calls run one at a time; the storage works.
NextSequential ==
    \/ \E s \in Sections : load_seen(1, s, "none")
    \/ \E s \in Sections, u \in UrlLists : save_seen(1, s, u, "none")
    \/ \E s \in Sections, u \in UrlLists : append_seen_load(1, s, u, "none")
    \/ append_seen_save(1, "none")

SpecSequential == Init /\ [][NextSequential]_vars

\* The url_tracking module on its own: load_seen_urls and save_seen_urls.
NextTracking ==
    \/ \E s \in Sections, f \in LoadFaults : load_seen_urls(1, s, f)
    \/ \E s \in Sections, u \in UrlLists, f \in SaveFaults :
          save_seen_urls(1, s, u, f)

SpecTracking == Init /\ [][NextTracking]_vars

\* ------------------------------------------------------------------------
\* seen_store and url_tracking side by side
\* ------------------------------------------------------------------------

\* seen_store.normalize_url(u) and url_tracking.normalize_url(u); the two
\* functions are compared before any call to the stores.
NormalizeBoth(u) ==
    /\ npc = "off" /\ nops = 0
    /\ url' = u
    /\ n1' = normalize_url(u)
    /\ tlast' = [tlast EXCEPT !.op = "normalize", !.n = tracking_normalize_url(u)]
    /\ npc' = "both"
    /\ UNCHANGED <<n2, ntag, alt, tfiles>>
    /\ UNCHANGED storeVars /\ UNCHANGED checkVars /\ UNCHANGED searchVars

\* seen_store.load_seen(section) on files, url_tracking.load_seen_urls(section)
\* on tfiles, under the same storage fault.
LoadBoth(section, fault) ==
    /\ npc = "off"
    /\ nops < MaxOps
    /\ nops' = nops + 1
    /\ last' = [NoCall EXCEPT
                 !.op = "load", !.impl = "seen_store", !.section = section,
                 !.key = file_for(section), !.fault = fault,
                 !.status = load_status(fault),
                 !.value = IF load_status(fault) = "raised" THEN <<>>
                           ELSE load_value(files[file_for(section)], fault),
                 !.pre = files[file_for(section)],
                 !.clean = file_for(section) \in written]
    /\ tlast' = [NoTrack EXCEPT
                  !.op = "load", !.status = tracking_load_status(fault),
                  !.value = IF tracking_load_status(fault) = "raised" THEN <<>>
                            ELSE tracking_load_value(tfiles[seen_file_path(section)],
                                                     fault)]
    /\ UNCHANGED <<files, written, pc, loc, tfiles>>
    /\ UNCHANGED normVars /\ UNCHANGED checkVars /\ UNCHANGED searchVars

\* seen_store.save_seen(section, urls) on files,
\* url_tracking.save_seen_urls(section, urls) on tfiles, under the same
\* storage fault.
SaveBoth(section, urls, fault) ==
    /\ npc = "off"
    /\ nops < MaxOps
    /\ nops' = nops + 1
    /\ files' = [files EXCEPT ![file_for(section)] = saved_content(@, urls, fault)]
    /\ tfiles' = [tfiles EXCEPT ![seen_file_path(section)] =
                                    tracking_saved_content(@, urls, fault)]
    /\ written' = WrittenAfter(file_for(section), fault)
    /\ last' = [NoCall EXCEPT
                 !.op = "save", !.impl = "seen_store", !.section = section,
                 !.key = file_for(section), !.urls = urls, !.fault = fault,
                 !.status = save_status(fault), !.pre = files[file_for(section)],
                 !.clean = file_for(section) \in written]
    /\ tlast' = [NoTrack EXCEPT !.op = "save", !.status = tracking_save_status(fault)]
    /\ UNCHANGED <<pc, loc>>
    /\ UNCHANGED normVars /\ UNCHANGED checkVars /\ UNCHANGED searchVars

\* The two modules start from the same files.
InitBoth ==
    /\ StoreInit
    /\ tfiles = files /\ tlast = NoTrack
    /\ search = NoSearch
    /\ url = <<>> /\ n1 = <<>> /\ n2 = <<>> /\ ntag = <<>> /\ npc = "off"
    /\ alt = NoAlt
    /\ CheckOff

NextBoth ==
    \/ (npc = "off" /\ nops = 0 /\ \E u \in Urls : NormalizeBoth(u))
    \/ \E s \in PlainSections, f \in LoadFaults : LoadBoth(s, f)
    \/ \E s \in PlainSections, u \in UrlLists, f \in SaveFaults : SaveBoth(s, u, f)

SpecBoth == InitBoth /\ [][NextBoth]_vars

\* ------------------------------------------------------------------------
\* Checker actions
\* ------------------------------------------------------------------------

\* Time passes before the checker reads the clock.
Tick ==
    /\ cpc \in {"in", "checked"}
    /\ clock < MaxTicks
    /\ clock' = clock + 1
    /\ UNCHANGED <<content, report, cpc, brand_guidelines, ctype, raised, report2>>
    /\ UNCHANGED normVars /\ UNCHANGED storeVars /\ UNCHANGED trackVars /\ UNCHANGED searchVars

\* generator.check_brand_guidelines(content): it returns its result or ends
\* with an exception; it assigns neither the content nor the rule set.
CheckContent ==
    /\ cpc = "in"
    /\ raised' = check_raises(ctype, content, brand_guidelines)
    /\ IF raised' = "none"
       THEN /\ report' = check_brand_guidelines(content, brand_guidelines, clock)
            /\ cpc' = "checked"
       ELSE /\ report' = report
            /\ cpc' = "raised"
    /\ UNCHANGED <<content, clock, brand_guidelines, ctype, report2>>
    /\ UNCHANGED normVars /\ UNCHANGED storeVars /\ UNCHANGED trackVars /\ UNCHANGED searchVars

\* A second generator.check_brand_guidelines(content) on the same content
\* and rule set, after one that returned.
CheckAgain ==
    /\ cpc = "checked"
    /\ report2' = check_brand_guidelines(content, brand_guidelines, clock)
    /\ cpc' = "rechecked"
    /\ UNCHANGED <<content, report, clock, brand_guidelines, ctype, raised>>
    /\ UNCHANGED normVars /\ UNCHANGED storeVars /\ UNCHANGED trackVars /\ UNCHANGED searchVars

CheckerOnly ==
    /\ report = NoReport /\ cpc = "in" /\ clock = 0
    /\ raised = "none" /\ report2 = NoReport
    /\ url = <<>> /\ n1 = <<>> /\ n2 = <<>> /\ ntag = <<>> /\ npc = "off"
    /\ alt = NoAlt
    /\ files = [k \in FileKeys |-> Absent]
    /\ written = {} /\ pc = [c \in Clients |-> "idle"]
    /\ loc = [c \in Clients |-> NoLoc] /\ last = NoCall /\ nops = 0
    /\ TrackOff

\* The generator as constructed: a dict content, the configured rule set.
InitCheck ==
    /\ content \in Contents
    /\ brand_guidelines = BRAND_GUIDELINES /\ ctype = "dict"
    /\ CheckerOnly

NextCheck ==
    \/ Tick
    \/ CheckContent
    \/ CheckAgain

SpecCheck == InitCheck /\ [][NextCheck]_vars

\* Any content object, any rule set assigned to self.brand_guidelines.
InitRules ==
    /\ content \in RuleContents
    /\ ctype \in ContentTypes
    /\ ctype = "NoneType" => content = <<>>
    /\ brand_guidelines \in RuleSets
    /\ CheckerOnly

SpecRules == InitRules /\ [][NextCheck]_vars

\* ------------------------------------------------------------------------
\* Search actions
\* ------------------------------------------------------------------------

\* multi_search, one pass of the loop: the query is sent to the backend, its
\* results are merged; an exception, of the backend or of the merge, goes to
\* the next query without the test that stops early.
multi_search_query(outcome) ==
    LET acc == [all_results |-> search.all_results, seen_urls |-> search.seen_urls,
                raised |-> FALSE]
        merged == IF outcome.raised THEN [acc EXCEPT !.raised = TRUE]
                  ELSE multi_merge(outcome.results, acc)
    IN  /\ search.fn = "multi_search" /\ search.pc = "loop"
        /\ search.i < search.queries
        /\ search' = [search EXCEPT
                        !.i = @ + 1,
                        !.all_results = merged.all_results,
                        !.seen_urls = merged.seen_urls,
                        !.late = @ \/ Len(search.all_results) >= search.max_results,
                        !.pc = IF /\ ~merged.raised
                                  /\ Len(merged.all_results) >= search.max_results
                               THEN "break" ELSE "loop"]
        /\ UNCHANGED normVars /\ UNCHANGED storeVars /\ UNCHANGED checkVars
        /\ UNCHANGED trackVars

\* multi_search: return all_results[:max_results]
multi_search_return ==
    /\ search.fn = "multi_search"
    /\ search.pc = "break" \/ (search.pc = "loop" /\ search.i = search.queries)
    /\ search' = [search EXCEPT
                    !.pc = "returned",
                    !.returned = Slice(search.all_results, search.max_results)]
    /\ UNCHANGED normVars /\ UNCHANGED storeVars /\ UNCHANGED checkVars
    /\ UNCHANGED trackVars

\* search_all_signals, one pass of the loop over SIGNAL_QUERIES.
search_all_signals_query(outcome) ==
    LET acc == [all_results |-> search.all_results, seen_urls |-> search.seen_urls,
                raised |-> FALSE]
        merged == IF outcome.raised THEN [acc EXCEPT !.raised = TRUE]
                  ELSE signal_merge(outcome.results, acc, search.i + 1)
    IN  /\ search.fn = "search_all_signals" /\ search.pc = "loop"
        /\ search.i < search.queries
        /\ search' = [search EXCEPT
                        !.i = @ + 1,
                        !.all_results = merged.all_results,
                        !.seen_urls = merged.seen_urls]
        /\ UNCHANGED normVars /\ UNCHANGED storeVars /\ UNCHANGED checkVars
        /\ UNCHANGED trackVars

\* search_all_signals: return all_results
search_all_signals_return ==
    /\ search.fn = "search_all_signals"
    /\ search.pc = "loop" /\ search.i = search.queries
    /\ search' = [search EXCEPT !.pc = "returned", !.returned = search.all_results]
    /\ UNCHANGED normVars /\ UNCHANGED storeVars /\ UNCHANGED checkVars
    /\ UNCHANGED trackVars

\* The call: multi_search(queries, max_results, exclude_urls) with seen_urls
\* = set(), or search_all_signals(exclude_urls) with seen_urls =
\* set(exclude_urls).
InitSearch ==
    /\ \E e \in ExcludeLists :
          \/ \E q \in 0..MaxQueries, m \in 1..MaxWanted :
                search = [NoSearch EXCEPT !.fn = "multi_search", !.pc = "loop",
                                          !.queries = q, !.max_results = m,
                                          !.exclude_urls = e]
          \/ search = [NoSearch EXCEPT !.fn = "search_all_signals", !.pc = "loop",
                                       !.queries = NumSignals,
                                       !.exclude_urls = e, !.seen_urls = e]
    /\ tfiles = [k \in FileKeys |-> Absent] /\ tlast = NoTrack
    /\ CheckOff
    /\ url = <<>> /\ n1 = <<>> /\ n2 = <<>> /\ ntag = <<>> /\ npc = "off"
    /\ alt = NoAlt
    /\ files = [k \in FileKeys |-> Absent]
    /\ written = {} /\ pc = [c \in Clients |-> "idle"]
    /\ loc = [c \in Clients |-> NoLoc] /\ last = NoCall /\ nops = 0

NextSearch ==
    \/ \E o \in BackendOutcomes : multi_search_query(o)
    \/ multi_search_return
    \/ \E o \in BackendOutcomes : search_all_signals_query(o)
    \/ search_all_signals_return

SpecSearch == InitSearch /\ [][NextSearch]_vars

\* ------------------------------------------------------------------------
\* Properties
\* ------------------------------------------------------------------------

Range(s) == {s[i] : i \in 1..Len(s)}

NoRepeats(s) == \A i, j \in 1..Len(s) : i # j => s[i] # s[j]

\* s without the later occurrences of a repeated element.
RECURSIVE FirstOccurrences(_)
FirstOccurrences(s) ==
    IF s = <<>> THEN <<>>
    ELSE LET r == FirstOccurrences(SubSeq(s, 1, Len(s) - 1))
         IN  IF s[Len(s)] \in Range(r) THEN r ELSE Append(r, s[Len(s)])

\* The non-empty normal forms of urls, in order.
NormalForms(urls) ==
    SelectSeq([i \in 1..Len(urls) |-> normalize_url(urls[i])], LAMBDA x : x # <<>>)

\* C1: normalize is idempotent: normalising a normalised URL changes
\* nothing.
C1_Idempotent == npc = "twice" => n2 = n1

\* C11: normalize returns for every string: the empty string for the empty
\* string, and the trimmed input, otherwise unchanged, for a string that
\* urlparse rejects.
C11_FailsToTrimmedInput ==
    npc \in {"once", "twice", "tagged"} =>
        /\ url = <<>> => n1 = <<>>
        /\ (url # <<>> /\ ~urlparse(strip(url)).ok) => n1 = strip(url)

\* A string with surrounding whitespace that urlparse rejects was
\* normalised.
C11_Witness ==
    /\ npc = "once"
    /\ ~urlparse(strip(url)).ok
    /\ strip(url) # url
    /\ Len(n1) > 3

\* C12 as claimed: two strings that differ only in the letter case of
\* scheme or host normalise to the same value, and two that differ in the
\* letter case of the path normalise to different values.
C12_CaseAnyString ==
    npc = "variant" =>
        /\ alt.kind = "host" => alt.n = n1
        /\ alt.kind = "path" => alt.n # n1

\* C12 amended: two URLs that urlparse accepts and that differ only in the
\* letter case of scheme or host normalise to the same value, whose scheme
\* and host are in lower case; two URLs that differ in the letter case of
\* the path normalise to different values.
C12_CaseOfSchemeHostPath ==
    npc = "variant" =>
        /\ (alt.kind = "host" /\ urlparse(strip(url)).ok) =>
              /\ alt.n = n1
              /\ \A i \in HostRegion(n1) : LowerTok(n1[i]) = n1[i]
        /\ alt.kind = "path" => alt.n # n1

\* "HTTP://X.com/P" was normalised next to a URL with another host case,
\* and a URL next to one with another path case.
C12_Witness ==
    /\ npc = "variant"
    /\ alt.kind = "host"
    /\ url = <<"HTTP", ":", "/", "/", "X.com", "/", "P">>
    /\ alt.url = <<"HTTP", ":", "/", "/", "x.com", "/", "P">>
    /\ n1 = <<"http", ":", "/", "/", "x.com", "/", "P">>

C12_PathWitness ==
    /\ npc = "variant"
    /\ alt.kind = "path"
    /\ url = <<"HTTP", ":", "/", "/", "X.com", "/", "P">>
    /\ alt.n = <<"http", ":", "/", "/", "x.com", "/", "p">>

\* C13: the normal form of a URL that urlparse accepts holds no "#", and
\* two such URLs, neither the empty string, that differ only in their
\* fragment normalise to the same value.
C13_FragmentRemoved ==
    /\ (npc \in {"once", "twice", "tagged", "variant"} /\ urlparse(strip(url)).ok)
          => "#" \notin Range(n1)
    /\ (npc = "variant" /\ alt.kind = "fragment" /\ urlparse(strip(url)).ok
          /\ url # <<>> /\ alt.url # <<>>)
          => alt.n = n1

\* The key/value pairs of the query of a URL, as parse_qsl reads them.
QueryPairs(u) == parse_qsl(urlparse(u).query)

\* The pairs of q whose key, in lower case, is none of the ten tracking names.
NonTracking(q) == SelectSeq(q, LAMBDA kv : lower(kv[1]) \notin TagKeys)

\* C14: the query of the normal form holds the pairs of the input whose key,
\* compared without case, is no tracking key, blank values and repeated
\* keys included, in their order, and no others; when only tracking
\* parameters were there the normal form has no query.
C14_QueryFiltered ==
    (npc \in {"once", "twice", "tagged", "variant"} /\ urlparse(strip(url)).ok) =>
        /\ QueryPairs(n1) = NonTracking(QueryPairs(strip(url)))
        /\ NonTracking(QueryPairs(strip(url))) = <<>> => "?" \notin Range(n1)

\* A query with a tracking key between a blank pair and a repeated key in
\* another case was filtered.
C14_Witness ==
    /\ npc = "once"
    /\ QueryPairs(strip(url)) = <<<<<<"k">>, <<>>>>, <<<<"gclid">>, <<"v">>>>,
                                 <<<<"K">>, <<>>>>>>
    /\ QueryPairs(n1) = <<<<<<"k">>, <<>>>>, <<<<"K">>, <<>>>>>>

\* Only a tracking parameter, in upper case, was in the query.
C14_OnlyTracking ==
    /\ npc = "once"
    /\ QueryPairs(strip(url)) = <<<<<<"UTM_SOURCE">>, <<"v">>>>>>
    /\ "?" \notin Range(n1)

\* C2 as claimed: for every string u and every tracking key k,
\* normalize(u + "&k=v") equals normalize(u).
C2_TrackingInvarianceAnyUrl == npc = "tagged" => ntag = n1

\* u is parsed without error and "&k=v" appended to it lands in its query
\* or its fragment: u holds a "#", or holds a "?" and does not end in
\* whitespace.
TagLandsInQueryOrFragment(u) ==
    /\ urlparse(strip(u)).ok
    /\ \/ "#" \in Range(u)
       \/ "?" \in Range(u) /\ u[Len(u)] # " "

\* C2 amended: for every string u that parses, and holds a "#" or holds a
\* "?" and does not end in whitespace, and every tracking key k,
\* normalize(u + "&k=v") equals normalize(u).
C2_TrackingInvariance ==
    (npc = "tagged" /\ TagLandsInQueryOrFragment(url)) => ntag = n1

\* A URL with a query that survives normalisation was normalised with and
\* without an appended tracking parameter.
C2_Witness ==
    /\ npc = "tagged"
    /\ TagLandsInQueryOrFragment(url)
    /\ "#" \notin Range(url)
    /\ "?" \in Range(n1)

\* C3: every list a completed save or append persisted holds pairwise
\* distinct, non-empty normalised URLs.
C3_PersistedDistinct ==
    \A k \in written :
        /\ files[k].kind = "list"
        /\ NoRepeats(files[k].data)
        /\ \A i \in 1..Len(files[k].data) : files[k].data[i] # <<>>

\* A save of two URLs with one normal form, and an append onto a list that
\* held the appended URL already, were persisted.
C3_Witness ==
    /\ last.op = "append" /\ last.status = "ok" /\ last.clean
    /\ last.urls = <<U_track, U_plain>>
    /\ last.pre.data = <<normalize_url(U_other), normalize_url(U_plain)>>
    /\ last.key \in written
    /\ Len(files[last.key].data) = 2

\* C4: a load that directly follows save(cat, urls) returns the normal
\* forms of urls, repeats removed, in the order of first occurrence.
C4_RoundTrip ==
    (last.op = "load" /\ last.after = "save" /\ last.fault = "none")
        => last.value = FirstOccurrences(NormalForms(last.urls))

\* C5: after append(cat, new_urls) on a list the store had persisted, load
\* returns the new URLs first, then the previously stored ones, repeats
\* removed by first occurrence.
C5_AppendPrecedence ==
    (last.op = "append" /\ last.status = "ok" /\ last.clean /\ ~last.overlapped)
        => load_value(files[last.key], "none")
             = FirstOccurrences(NormalForms(last.urls) \o last.pre.data)

\* C6: the list load returns holds no URL twice, whatever the file holds.
C6_LoadReturnsSet ==
    (last.op = "load" /\ last.status = "ok") => NoRepeats(last.value)

\* C7: load never raises, and returns the empty list when the file is
\* missing, unreadable or no JSON list, or the data directory cannot be
\* created.
C7_LoadFailsOpen ==
    last.op = "load" =>
        /\ last.status = "ok"
        /\ (last.fault # "none" \/ last.pre.kind # "list") => last.value = <<>>

\* C8: a save or append whose write failed ends with the error, and one
\* that returned normally has persisted every non-empty normalised URL it
\* was given.
C8_WriteFailurePropagates ==
    last.op \in {"save", "append"} =>
        /\ last.fault # "none" => last.status = "raised"
        /\ last.status = "ok" =>
              /\ files[last.key].kind = "list"
              /\ Range(NormalForms(last.urls)) \subseteq Range(files[last.key].data)

\* A write failed after the file was opened, inside save and inside append.
C8_Witness ==
    /\ last.op = "append" /\ last.fault = "dump" /\ last.status = "raised"
    /\ files[last.key].kind = "junk"

\* C9, the sequential half: an append that did not overlap another call
\* keeps the URLs the earlier writer persisted and adds its own.
C9_SequentialKeepsBoth ==
    (last.op = "append" /\ last.status = "ok" /\ last.clean /\ ~last.overlapped)
        => /\ Range(last.pre.data) \subseteq Range(files[last.key].data)
           /\ Range(NormalForms(last.urls)) \subseteq Range(files[last.key].data)

\* C9, the race: both clients loaded before either saved, and the list
\* persisted last lacks a URL the first writer had persisted.
C9_LostUpdate ==
    /\ last.op = "append" /\ last.status = "ok" /\ last.overlapped
    /\ \A c \in Clients : pc[c] = "idle"
    /\ Range(NormalForms(<<U_other>>)) \subseteq Range(files[last.key].data)
    /\ ~(Range(NormalForms(<<U_track, U_plain>>)) \subseteq Range(files[last.key].data))
    /\ last.pre.kind = "absent"

\* C10: the file name of every call is "seen_", characters of the section
\* name that are alphanumeric, "_" or "-", and ".json".
C10_SafeKey ==
    last.op # "none" =>
        /\ Len(last.key) >= 2
        /\ last.key[1] = "seen_" /\ last.key[Len(last.key)] = ".json"
        /\ \A i \in 2..(Len(last.key) - 1) :
              last.key[i] \in SafeToks /\ last.key[i] \in Range(lower(last.section))

\* The entries of a list of violations that have the given severity.
WithSeverity(vs, sev) == SelectSeq(vs, LAMBDA v : v.severity = sev)

\* C15: passed is true exactly when the report holds no violation of
\* severity error, whatever the number of warnings; total_issues and
\* total_warnings are the lengths of issues and warnings; issues holds
\* errors only and warnings holds warnings only.
C15_ReportConsistent ==
    cpc = "checked" =>
        /\ report.passed <=>
              Len(WithSeverity(report.issues \o report.warnings, "error")) = 0
        /\ report.total_issues = Len(report.issues)
        /\ report.total_warnings = Len(report.warnings)
        /\ WithSeverity(report.issues, "error") = report.issues
        /\ WithSeverity(report.warnings, "warning") = report.warnings

\* A report with warnings and no error passed.
C15_Witness ==
    /\ cpc = "checked"
    /\ report.passed
    /\ report.total_warnings >= 2
    /\ report.total_issues = 0

\* The text the checker looked at, and whether a term occurs in it when
\* letter case is ignored.
CheckedText == all_text_of(content)

OccursNoCase(term, text) == Occurs(lowerText(term), lowerText(text))

\* The entries of issues that name a forbidden term.
IssuesNaming(term) ==
    SelectSeq(report.issues,
              LAMBDA v : v.issue = <<"Forbidden", "term", "found:">> \o term)

\* The replacements the required-substitution mapping configures for a term.
ReplacementsFor(term) ==
    {BRAND_GUIDELINES.briteco_brand.required_terms[i].use :
        i \in {j \in 1..Len(BRAND_GUIDELINES.briteco_brand.required_terms) :
                  term \in BRAND_GUIDELINES.briteco_brand.required_terms[j].for}}

\* C16: for each forbidden term that occurs in the content, letter case
\* ignored, the report holds one violation naming it, of severity error,
\* however often the term occurs, and the suggestion of that violation is a
\* replacement the required-substitution mapping configures for the term.
C16_ForbiddenTermScan ==
    cpc = "checked" =>
        \A i \in 1..Len(BRAND_GUIDELINES.briteco_brand.forbidden_terms) :
            LET term == BRAND_GUIDELINES.briteco_brand.forbidden_terms[i]
            IN  OccursNoCase(term, CheckedText) =>
                   /\ Len(IssuesNaming(term)) = 1
                   /\ IssuesNaming(term)[1].severity = "error"
                   /\ \E r \in ReplacementsFor(term) :
                         Occurs(r, IssuesNaming(term)[1].suggestion)

\* Some forbidden term, some gendered term occurs in the checked text.
HasForbiddenTerm ==
    \E i \in 1..Len(BRAND_GUIDELINES.briteco_brand.forbidden_terms) :
        OccursNoCase(BRAND_GUIDELINES.briteco_brand.forbidden_terms[i], CheckedText)

HasGenderedTerm ==
    \E i \in 1..Len(gendered_terms) : OccursNoCase(gendered_terms[i], CheckedText)

\* The checked text holds "a, b and c": a word and a comma, a word, "and"
\* and a further word, whitespace between them.
HasListWithoutSerialComma ==
    LET ws == SelectSeq(CheckedText, LAMBDA w : w # "")
    IN  \E i \in 1..(Len(ws) - 3) :
            /\ ws[i] \in CommaWords /\ ws[i + 1] \in PureWords
            /\ ws[i + 2] = "and"

\* C17 as claimed: every text with a forbidden term and no gendered term
\* yields passed = False, total_issues >= 1 and total_warnings = 0.
C17_ErrorsOnlyAnyText ==
    (cpc = "checked" /\ HasForbiddenTerm /\ ~HasGenderedTerm) =>
        /\ ~report.passed
        /\ report.total_issues >= 1
        /\ report.total_warnings = 0

\* C17 amended: every text with a forbidden term, no gendered term and no
\* list "a, b and c" without serial comma yields passed = False,
\* total_issues >= 1 and total_warnings = 0.
C17_ErrorsOnly ==
    (cpc = "checked" /\ HasForbiddenTerm /\ ~HasGenderedTerm
        /\ ~HasListWithoutSerialComma) =>
        /\ ~report.passed
        /\ report.total_issues >= 1
        /\ report.total_warnings = 0

\* A text with a forbidden term in another letter case, spread over two
\* fields, and nothing else was checked.
C17_Witness ==
    /\ cpc = "checked"
    /\ content = <<[kind |-> "str", text |-> <<"Insurance", "Company">>],
                   [kind |-> "str", text |-> <<"ok">>]>>
    /\ ~report.passed /\ report.total_issues = 1 /\ report.total_warnings = 0

\* C18: every input that holds "lab grown", in any letter case, yields a
\* violation of severity error whose suggestion is 'lab-grown', and passed
\* = False, also when the input holds "lab-grown" elsewhere.
C18_LabGrownAlwaysFlagged ==
    (cpc = "checked" /\ OccursNoCase(<<"lab", "grown">>, CheckedText)) =>
        /\ \E i \in 1..Len(report.issues) :
              /\ report.issues[i].severity = "error"
              /\ Occurs(<<"'lab-grown'">>, report.issues[i].suggestion)
        /\ ~report.passed

\* The entries of a list of violations that name a gendered term.
NamingGendered(vs, term) ==
    SelectSeq(vs, LAMBDA v : v.issue = <<"Gendered", "term", "found:">> \o term)

\* The neutral replacements the corrections mapping configures for a term.
CorrectionsFor(term) ==
    {BRAND_GUIDELINES.tone.wedding_insurance.corrections[i].use :
        i \in {j \in 1..Len(BRAND_GUIDELINES.tone.wedding_insurance.corrections) :
                  BRAND_GUIDELINES.tone.wedding_insurance.corrections[j].term = term}}

\* C19: for each gendered term that occurs in the content, letter case
\* ignored, the report holds one violation naming it, a warning and never
\* an error, whose suggestion is the neutral replacement the corrections
\* mapping configures for the term; no entry of issues stems from the
\* inclusive-language scan.
C19_InclusiveLanguageScan ==
    cpc = "checked" =>
        /\ \A i \in 1..Len(gendered_terms) :
              OccursNoCase(gendered_terms[i], CheckedText) =>
                 /\ Len(NamingGendered(report.warnings, gendered_terms[i])) = 1
                 /\ NamingGendered(report.warnings, gendered_terms[i])[1].severity
                       = "warning"
                 /\ NamingGendered(report.issues, gendered_terms[i]) = <<>>
                 /\ \E r \in CorrectionsFor(gendered_terms[i]) :
                       NamingGendered(report.warnings, gendered_terms[i])[1].suggestion
                           = <<"Consider", "using:">> \o r
        /\ \A i \in 1..Len(report.issues) :
              report.issues[i].rule # "Inclusive Language"

\* The entries of a list of violations with the rule "Punctuation" that are
\* about the serial comma.
SerialCommaEntries(vs) ==
    SelectSeq(vs, LAMBDA v : v.rule = "Punctuation"
                             /\ v.issue = <<"Possible", "missing", "serial", "comma">>)

\* C20: a text that holds a list "a, b and c" of single words, no comma
\* before "and", yields one Punctuation violation of severity warning,
\* however many such lists it holds; a text that holds none yields no such
\* violation; the check adds no error.
C20_SerialComma ==
    cpc = "checked" =>
        /\ HasListWithoutSerialComma =>
              /\ Len(SerialCommaEntries(report.warnings)) = 1
              /\ SerialCommaEntries(report.warnings)[1].severity = "warning"
        /\ ~HasListWithoutSerialComma => SerialCommaEntries(report.warnings) = <<>>
        /\ SerialCommaEntries(report.issues) = <<>>

\* Two fields with "theft, loss and damages" gave one warning.
C20_Witness ==
    /\ cpc = "checked"
    /\ content = <<[kind |-> "str", text |-> <<"theft,", "loss", "and", "damages">>],
                   [kind |-> "str", text |-> <<"theft,", "loss", "and", "damages">>]>>
    /\ report.total_warnings = 1
    /\ report.passed

\* "theft, loss, and damages" gave no warning.
C20_SerialCommaUsed ==
    /\ cpc = "checked"
    /\ content = <<[kind |-> "str", text |-> <<"theft,", "loss,", "and", "damages">>]>>
    /\ report.total_warnings = 0

\* ------------------------------------------------------------------------
\* check_brand_guidelines: rule sets, content objects, repeated calls
\* ------------------------------------------------------------------------

\* C21: a rule set that lacks a category (briteco_brand, tone) or a rule
\* list, or holds an empty one, is no error: the call on a dict content
\* does not raise and returns a report.
C21_MisconfigurationTolerated ==
    (ctype = "dict" /\ cpc # "in") => (cpc = "checked" /\ raised = "none")

\* C22: with the configured rule set the call never raises, whatever the
\* content object is: values that are no strings and a content that is no
\* dict are skipped or coerced, and a report is returned.
C22_MalformedContentTolerated ==
    (brand_guidelines = BRAND_GUIDELINES /\ cpc # "in") =>
        (cpc = "checked" /\ raised = "none")

\* C23: a forbidden term in any string of the content object, the strings
\* nested in a value included, gives the error violation that names it.
C23_EveryLeafChecked ==
    cpc = "checked" =>
        \A f \in 1..Len(content) :
            \A i \in 1..Len(BRAND_GUIDELINES.briteco_brand.forbidden_terms) :
                LET term == BRAND_GUIDELINES.briteco_brand.forbidden_terms[i]
                IN  OccursNoCase(term, content[f].text) =>
                       /\ IssuesNaming(term) # <<>>
                       /\ IssuesNaming(term)[1].severity = "error"

Count(cond) == IF cond THEN 1 ELSE 0

\* C29: total_issues is the number of forbidden terms that occur in the
\* text, letter case ignored, plus one if "www.brite.co" occurs as written,
\* plus one if "lab grown" occurs, letter case ignored, and "lab-grown" does
\* not occur; a text with none of these passes, and a text with
\* "www.brite.co" has two errors for it.
C29_ErrorCount ==
    cpc = "checked" =>
        /\ report.total_issues =
              Cardinality({i \in 1..Len(BRAND_GUIDELINES.briteco_brand.forbidden_terms) :
                  OccursNoCase(BRAND_GUIDELINES.briteco_brand.forbidden_terms[i],
                               CheckedText)})
              + Count(Occurs(<<"www.brite.co">>, CheckedText))
              + Count(/\ OccursNoCase(<<"lab", "grown">>, CheckedText)
                      /\ ~Occurs(<<"lab-grown">>, CheckedText))
        /\ (~HasForbiddenTerm /\ ~OccursNoCase(<<"lab", "grown">>, CheckedText))
              => report.passed
        /\ Occurs(<<"www.brite.co">>, CheckedText) =>
              Len(SelectSeq(report.issues,
                            LAMBDA v : Occurs(<<"www.brite.co">>, v.issue))) = 2

\* One "www.brite.co" gave two errors, "WWW.Brite.co" beside a hyphenated
\* "Lab-Grown" and "lab grown" gave two as well.
C29_Witness ==
    /\ cpc = "checked"
    /\ content = <<[kind |-> "str", text |-> <<"www.brite.co">>],
                   [kind |-> "str", text |-> <<"ok">>]>>
    /\ report.total_issues = 2

C29_OtherCase ==
    /\ cpc = "checked"
    /\ content = <<[kind |-> "str", text |-> <<"WWW.Brite.co">>],
                   [kind |-> "str", text |-> <<"Lab", "Grown">>]>>
    /\ report.total_issues = 2

\* ------------------------------------------------------------------------
\* seen_store: failed writes, growth, isolation of the sections
\* ------------------------------------------------------------------------

\* What load_seen returns for a file when the storage works.
Loaded(file) == load_value(file, "none")

\* C25: a save_seen that raised left the persisted list of the section as
\* it was: load_seen returns the same list as before the call.
C25_FailedSaveKeepsSet ==
    (last.op = "save" /\ last.status = "raised") =>
        Loaded(files[last.key]) = Loaded(last.pre)

\* C26: after an append_seen that succeeded on a readable file and did not
\* overlap another call, load_seen returns every URL it returned before and
\* every non-empty normal form of the URLs appended: nothing is evicted.
C26_OnlyGrows ==
    (last.op = "append" /\ last.status = "ok" /\ ~last.overlapped
        /\ last.pre.kind # "junk") =>
        (Range(Loaded(last.pre)) \cup Range(NormalForms(last.urls)))
            \subseteq Range(Loaded(files[last.key]))

\* The sanitized key of a section name: lower-cased, characters other than
\* alphanumerics, "_" and "-" removed.
SanitizedKey(section) ==
    SelectSeq(section, LAMBDA c : LowerTok(c) \in SafeToks)

SameKey(s, t) == lower(SanitizedKey(s)) = lower(SanitizedKey(t))

\* C27: a step changes what load_seen returns for a section only when it is
\* a save_seen or append_seen on a section with the same sanitized key; two
\* names with the same sanitized key share one file, and after a save_seen
\* under one of them the file read under the other holds the list saved.
C27_IsolationBySanitizedKey ==
    [][\A s \in Sections :
          /\ Loaded(files'[file_for(s)]) # Loaded(files[file_for(s)]) =>
                /\ last'.op \in {"save", "append"}
                /\ SameKey(last'.section, s)
          /\ \A t \in Sections :
                SameKey(s, t) => Loaded(files'[file_for(t)]) = Loaded(files'[file_for(s)])
          /\ (last'.op = "save" /\ last'.status = "ok" /\ last' # last
                /\ SameKey(last'.section, s)) =>
                files'[file_for(s)] = [kind |-> "list", data |-> uniq_of(last'.urls)]]_vars

\* A save under "News" is what load under "news" returns, and the list of
\* "../tips" is as it was at the start.
C27_Witness ==
    /\ last.op = "save" /\ last.status = "ok" /\ last.section = <<"News">>
    /\ last.urls = <<U_other>>
    /\ Loaded(files[file_for(<<"news">>)]) = NormalForms(<<U_other>>)
    /\ Loaded(files[file_for(<<"..", "/", "tips">>)]) # NormalForms(<<U_other>>)

\* ------------------------------------------------------------------------
\* seen_store and url_tracking agree
\* ------------------------------------------------------------------------

\* C28: url_tracking.normalize_url and seen_store.normalize_url return the
\* same string for every non-empty url, and after the same calls on section
\* names of lower-case alphanumerics, "_" and "-" the two modules hold the
\* same files and their calls ended the same way with the same lists.
C28_ImplementationsAgree ==
    /\ (npc = "both" /\ url # <<>>) => tlast.n = n1
    /\ \A s \in PlainSections : tfiles[seen_file_path(s)] = files[file_for(s)]
    /\ last.op \in {"load", "save"} =>
          /\ tlast.op = last.op
          /\ tlast.status = last.status
          /\ tlast.value = last.value

\* Both modules loaded the list both had saved, its tracking parameter gone.
C28_Witness ==
    /\ last.op = "load" /\ last.status = "ok" /\ last.key \in written
    /\ last.value = <<U_plain>>
    /\ tlast.value = last.value
    /\ tfiles[seen_file_path(last.section)].data = <<U_plain>>

\* Both normalisers dropped the tracking parameter of the same URL.
C28_NormalizeWitness ==
    /\ npc = "both"
    /\ url = <<"HTTP", ":", "/", "/", "X.com", "/", "P", "?", "UTM_SOURCE", "=", "v">>
    /\ n1 = <<"http", ":", "/", "/", "x.com", "/", "P">>
    /\ tlast.n = n1

\* ------------------------------------------------------------------------
\* multi_search and search_all_signals: the merged list
\* ------------------------------------------------------------------------

ReturnedUrls == [i \in 1..Len(search.returned) |-> search.returned[i].url]

\* C30: the list multi_search or search_all_signals returned holds no URL
\* twice, no empty URL and no URL of the caller's exclude_urls, whatever
\* the backend returned and whichever queries failed; multi_search returned
\* at most max_results results and issued no query after it had collected
\* max_results.
C30_MergedResultsClean ==
    search.pc = "returned" =>
        /\ NoRepeats(ReturnedUrls)
        /\ \A i \in 1..Len(ReturnedUrls) : ReturnedUrls[i] # ""
        /\ \A i \in 1..Len(ReturnedUrls) : ReturnedUrls[i] \notin search.exclude_urls
        /\ search.fn = "multi_search" =>
              /\ Len(search.returned) <= search.max_results
              /\ ~search.late

=============================================================================
